---- MODULE Spec2Model ----
(***************************************************************************)
(* PathFinder Pro (src/src/App.js): the App component's state, its auth    *)
(* and subscription effects, generateRoadmap and toggleModuleCompletion,   *)
(* run by one or two browser sessions against one shared document store.   *)
(*                                                                         *)
(* The store, the identity provider and the generation service are         *)
(* external: their answers are nondeterministic.  The store's listener is  *)
(* latency compensated, which is why line 57 reads createdAt?.seconds: a   *)
(* snapshot handed to a session is the server's matching documents         *)
(* overlaid with that session's own writes still in flight, a document     *)
(* added locally showing a null createdAt until the server stamps it.  A   *)
(* snapshot may be delivered arbitrarily late, or never.                   *)
(*                                                                         *)
(* Module indices are 1-based here (the source's moduleIndex + 1).         *)
(***************************************************************************)
EXTENDS Integers, Sequences, FiniteSets, TLC

\* ------------------------------------------------------------ bounds
MaxDocs == 2
MaxOutbox == 2
MaxCalls == 2

\* ------------------------------------------------------------ values
Null == "null"
Users == {"A", "B"}
Sessions == {"s1", "s2"}
DocIds == 1..MaxDocs

\* A topic is the text of the input box, one character per element.
Topics == {<< >>, <<" ", " ">>, <<" ", "G", "o">>}
NoTopic == << >>

ErrNone == ""
ErrTopic == "Please enter a topic to begin."
ErrAuth == "Authentication failed. Please try again later."
ErrFetch == "Could not fetch your saved roadmaps."
ErrGenerate == "Failed to generate roadmap from AI. Please try again."
ErrToggle == "Couldn't update progress. Please check your connection."

TitlePrefix == <<"Learning Roadmap for ">>

\* serverTimestamp(): the sentinel handed to the store, the value the local
\* cache shows while the write is in flight, and the server's resolved time.
ServerTimestamp == [sentinel |-> "serverTimestamp"]
PendingTimestamp == [pending |-> TRUE]
Stamp(n) == [seconds |-> n]

\* ------------------------------------------------------------ pure helpers
\* String.prototype.trim
RECURSIVE TrimLeft(_)
TrimLeft(t) == IF t # << >> /\ Head(t) = " " THEN TrimLeft(Tail(t)) ELSE t

RECURSIVE TrimRight(_)
TrimRight(t) ==
    IF t # << >> /\ t[Len(t)] = " " THEN TrimRight(SubSeq(t, 1, Len(t) - 1)) ELSE t

Trim(t) == TrimRight(TrimLeft(t))

\* Mutant of Blank: the test without the trim.
BlankUntrimmed(t) == t = << >>

\* !topic.trim()
Blank(t) == Trim(t) = << >>

\* Object spread { ...p, ...o }: o's fields override p's.
Spread(p, o) ==
    [k \in DOMAIN p \cup DOMAIN o |-> IF k \in DOMAIN o THEN o[k] ELSE p[k]]

\* ------------------------------------------------------------ the service's answers
AITitle == <<"AI title">>

Res(n) == [name |-> n, url |-> "https://example.org/" \o n]
Mod(t) == [title |-> t, resources |-> <<Res(t \o "-a"), Res(t \o "-b")>>]

PayloadValid == [title |-> AITitle, modules |-> <<Mod("m1"), Mod("m2")>>]
PayloadExtras ==
    [title |-> AITitle, userId |-> "B", createdAt |-> Stamp(99),
     modules |-> <<Spread(Mod("m1"), [completed |-> TRUE])>>]
PayloadNoTitle == [modules |-> <<Mod("m1")>>]
PayloadNoModules == [title |-> AITitle]
PayloadEmpty == [title |-> AITitle, modules |-> << >>]
PayloadModuleNoResources == [title |-> AITitle, modules |-> <<[title |-> "m1"]>>]
PayloadResourceNoUrl ==
    [title |-> AITitle,
     modules |-> <<[title |-> "m1", resources |-> <<[name |-> "m1-a"]>>]>>]

Payloads ==
    {PayloadValid, PayloadExtras, PayloadNoTitle, PayloadNoModules, PayloadEmpty,
     PayloadModuleNoResources, PayloadResourceNoUrl}

\* What fetch resolves to: a status, and a body whose parts[0].text is either
\* the JSON encoding of a value or text that JSON.parse rejects.
Responses ==
    {[ok |-> FALSE, envelope |-> FALSE, json |-> FALSE, value |-> PayloadValid],
     [ok |-> TRUE, envelope |-> FALSE, json |-> FALSE, value |-> PayloadValid],
     [ok |-> TRUE, envelope |-> TRUE, json |-> FALSE, value |-> PayloadValid]}
    \cup {[ok |-> TRUE, envelope |-> TRUE, json |-> TRUE, value |-> p] : p \in Payloads}

\* The response schema of lines 86-113.
ValidResource(r) == {"name", "url"} \subseteq DOMAIN r
ValidModule(m) ==
    /\ {"title", "resources"} \subseteq DOMAIN m
    /\ \A i \in DOMAIN m.resources : ValidResource(m.resources[i])
ValidRoadmap(p) ==
    /\ {"title", "modules"} \subseteq DOMAIN p
    /\ \A i \in DOMAIN p.modules : ValidModule(p.modules[i])

\* ------------------------------------------------------------ state
VARIABLES
    user,          \* useState(null), line 30: Null or a uid
    loading,       \* line 31
    topic,         \* line 32
    generating,    \* line 33
    error,         \* line 34
    userRoadmaps,  \* line 35: the locally held list
    mounted,       \* the component is attached (its effects are live)
    signingIn,     \* signInAnonymously is pending (line 42)
    sub,           \* the owners of this session's live queries (lines 54-55)
    dirty,         \* the owners whose live query has a change still to deliver
    gen,           \* where this session's generateRoadmap call stands
    outbox,        \* this session's store writes in flight, oldest first
    docs,          \* the store's roadmaps collection: id -> document data
    calls,         \* history: toggle calls issued so far, per document
    log,           \* history: the toggle writes that landed, per document
    unseen,        \* history: roadmaps a session toggled since its last snapshot
    missed         \* history: a session's toggle found no roadmap of the id

vars ==
    <<user, loading, topic, generating, error, userRoadmaps, mounted, signingIn,
      sub, dirty, gen, outbox, docs, calls, log, unseen,
      missed>>

\* The history variables record what happened; no action reads them except
\* to cap the number of toggle calls per document.
history == <<calls, log, unseen, missed>>

GenIdle == [pc |-> "idle", topic |-> NoTopic, user |-> Null]

\* setState on a detached component is dropped.
SetState(s, f, v) == IF mounted[s] THEN [f EXCEPT ![s] = v] ELSE f

\* ------------------------------------------------------------ the live query
\* (b.createdAt?.seconds || 0), line 57
SecondsOf(d) ==
    IF "createdAt" \in DOMAIN d /\ "seconds" \in DOMAIN d.createdAt
    THEN d.createdAt.seconds
    ELSE 0

\* Array.prototype.sort with the comparator of line 57: stable, newest first.
RECURSIVE InsertDesc(_, _)
InsertDesc(sorted, d) ==
    IF sorted = << >> THEN <<d>>
    ELSE IF SecondsOf(d) - SecondsOf(Head(sorted)) > 0 THEN <<d>> \o sorted
    ELSE <<Head(sorted)>> \o InsertDesc(Tail(sorted), d)

\* Mutant of SortRoadmaps: the documents left in the order the snapshot
\* holds them.
SortRoadmapsUnsorted(list) == list

RECURSIVE SortRoadmaps(_)
SortRoadmaps(list) ==
    IF list = << >> THEN << >>
    ELSE InsertDesc(SortRoadmaps(SubSeq(list, 1, Len(list) - 1)), list[Len(list)])

\* Mutant of Matches: the query without its where clause.
MatchesAny(d, owner) == TRUE

\* where("userId", "==", user.uid), line 54
Matches(d, owner) == "userId" \in DOMAIN d /\ d.userId = owner

\* Mutant of UpdatedDoc: the write dropped, the document left as it is.
UpdatedDocKept(doc, modules) == doc

\* Mutant of UpdatedDoc: the written array merged into the stored one, a
\* module staying completed once either says so.
UpdatedDocMerged(doc, modules) ==
    Spread(doc, [modules |-> [i \in DOMAIN modules |->
                    IF i \in DOMAIN doc.modules /\ doc.modules[i].completed
                    THEN doc.modules[i]
                    ELSE modules[i]]])

\* updateDoc(roadmapRef, { modules }), line 150: the field is replaced whole.
UpdatedDoc(doc, modules) == Spread(doc, [modules |-> modules])

\* One write of the session's own, applied to its local view of the query.
ApplyLocal(view, w, owner) ==
    IF w.op = "add"
    THEN IF Matches(w.data, owner)
         THEN (w.id :> Spread(w.data, [createdAt |-> PendingTimestamp])) @@ view
         ELSE view
    ELSE IF w.id \in DOMAIN view
         THEN [view EXCEPT ![w.id] = UpdatedDoc(@, w.modules)]
         ELSE view

RECURSIVE Overlay(_, _, _)
Overlay(view, writes, owner) ==
    IF writes = << >> THEN view
    ELSE Overlay(ApplyLocal(view, Head(writes), owner), Tail(writes), owner)

\* The documents a snapshot for session s holds: id -> data.
View(s, owner) ==
    Overlay([i \in {j \in DOMAIN docs : Matches(docs[j], owner)} |-> docs[i]],
            outbox[s], owner)

\* querySnapshot.docs, in document-id order, each mapped as on line 56.
RECURSIVE IdsAscending(_)
IdsAscending(ids) ==
    IF ids = {} THEN << >>
    ELSE LET m == CHOOSE i \in ids : \A j \in ids : i <= j
         IN <<m>> \o IdsAscending(ids \ {m})

RoadmapsData(s, owner) ==
    LET v == View(s, owner)
        ids == IdsAscending(DOMAIN v)
    IN [k \in DOMAIN ids |-> Spread([id |-> ids[k]], v[ids[k]])]

\* Mutant of Notified: a landed write told to no live query.
NotifiedNobody(owner) == dirty

\* The live queries a change to a document of `owner` reaches.
Notified(owner) == [s \in Sessions |-> dirty[s] \cup (sub[s] \cap {owner})]

\* A change to session s's own local view reaches its live queries at once.
NotifiedLocally(s, owner) == [dirty EXCEPT ![s] = @ \cup (sub[s] \cap {owner})]

\* Mutant of SubscriptionEffect: the effect without the cleanup of line 63.
SubscriptionEffectNoCleanup(subscribed, previous, current) ==
    subscribed \cup {current}

\* The effect of lines 52-64 when user changes: the cleanup of line 63
\* unsubscribes the query of the previous run, then line 55 subscribes anew.
SubscriptionEffect(subscribed, previous, current) ==
    (subscribed \ {previous}) \cup {current}

\* ------------------------------------------------------------ the store's bookkeeping
PendingAdds(s) == {k \in DOMAIN outbox[s] : outbox[s][k].op = "add"}

\* Ids taken by a document or by an add still in flight (addDoc draws the id
\* on the client).
UsedIds ==
    DOMAIN docs \cup UNION {{outbox[s][k].id : k \in PendingAdds(s)} : s \in Sessions}

\* Documents stored, being added, or about to be (a generation in flight).
Allocated ==
    Cardinality(UsedIds) + Cardinality({s \in Sessions : gen[s].pc = "fetch"})

\* The server's clock at a commit: later commits get later seconds.
ServerSeconds == Cardinality(DOMAIN docs) + 1

\* ------------------------------------------------------------ auth effect, lines 37-50
AuthChanged(s, currentUser) ==
    /\ mounted[s]
    /\ IF currentUser # Null
       THEN /\ user' = [user EXCEPT ![s] = currentUser]
            /\ signingIn' = [signingIn EXCEPT ![s] = FALSE]
            \* the effect of lines 52-64 runs again when user changes: the
            \* old query is unsubscribed, a new one is opened for the new uid
            /\ IF currentUser # user[s]
               THEN /\ sub' = [sub EXCEPT ![s] =
                                   SubscriptionEffect(@, user[s], currentUser)]
                    \* a new listener starts with a snapshot to deliver
                    /\ dirty' = [dirty EXCEPT ![s] = (@ \cap sub'[s]) \cup {currentUser}]
               ELSE UNCHANGED <<sub, dirty>>
       ELSE /\ signingIn' = [signingIn EXCEPT ![s] = TRUE]
            /\ UNCHANGED <<user, sub, dirty>>
    /\ loading' = [loading EXCEPT ![s] = FALSE]
    /\ UNCHANGED <<topic, generating, error, userRoadmaps, mounted, gen, outbox,
                   docs, history>>

\* signInAnonymously rejects, lines 42-45
SignInFailed(s) ==
    /\ signingIn[s]
    /\ signingIn' = [signingIn EXCEPT ![s] = FALSE]
    /\ error' = SetState(s, error, ErrAuth)
    /\ UNCHANGED <<user, loading, topic, generating, userRoadmaps, mounted, sub,
                   dirty, gen, outbox, docs, history>>

\* The component detaches: both effects' cleanups run (lines 49 and 63).
Unmount(s) ==
    /\ mounted[s]
    /\ mounted' = [mounted EXCEPT ![s] = FALSE]
    /\ sub' = [sub EXCEPT ![s] = {}]
    /\ dirty' = [dirty EXCEPT ![s] = {}]
    /\ UNCHANGED <<user, loading, topic, generating, error, userRoadmaps,
                   signingIn, gen, outbox, docs, history>>

\* ------------------------------------------------------------ subscription, lines 55-62
\* The snapshot callback, lines 55-58.
OnSnapshot(s, owner) ==
    /\ owner \in sub[s]
    /\ owner \in dirty[s]
    /\ userRoadmaps' = [userRoadmaps EXCEPT ![s] = SortRoadmaps(RoadmapsData(s, owner))]
    /\ dirty' = [dirty EXCEPT ![s] = @ \ {owner}]
    /\ unseen' = [unseen EXCEPT ![s] = {}]
    /\ UNCHANGED <<user, loading, topic, generating, error, mounted, signingIn,
                   sub, gen, outbox, docs, calls, log, missed>>

\* The error callback, lines 59-62: the listener ends.
OnSnapshotError(s, owner) ==
    /\ owner \in sub[s]
    /\ error' = [error EXCEPT ![s] = ErrFetch]
    /\ sub' = [sub EXCEPT ![s] = @ \ {owner}]
    /\ dirty' = [dirty EXCEPT ![s] = @ \ {owner}]
    /\ UNCHANGED <<user, loading, topic, generating, userRoadmaps, mounted,
                   signingIn, gen, outbox, docs, history>>

\* ------------------------------------------------------------ the topic input, lines 178-185
SetTopic(s, t) ==
    /\ mounted[s] /\ ~loading[s]
    /\ ~generating[s]
    /\ t # topic[s]
    /\ topic' = [topic EXCEPT ![s] = t]
    /\ UNCHANGED <<user, loading, generating, error, userRoadmaps, mounted,
                   signingIn, sub, dirty, gen, outbox, docs, history>>

\* ------------------------------------------------------------ generateRoadmap, lines 66-141
\* Mutant of generateRoadmap: line 71 left out, the flag never raised.
generateRoadmapNoFlag(s) ==
    /\ mounted[s] /\ ~loading[s]
    /\ gen[s].pc = "idle"
    /\ Allocated < MaxDocs
    /\ IF Blank(topic[s])
       THEN /\ error' = [error EXCEPT ![s] = ErrTopic]
            /\ UNCHANGED gen
       ELSE /\ error' = [error EXCEPT ![s] = ErrNone]
            /\ gen' = [gen EXCEPT ![s] =
                          [pc |-> "fetch", topic |-> topic[s], user |-> user[s]]]
    /\ UNCHANGED <<user, loading, topic, generating, userRoadmaps, mounted,
                   signingIn, sub, dirty, outbox, docs, history>>

\* Lines 66-72, up to the fetch being issued.
generateRoadmap(s) ==
    /\ mounted[s] /\ ~loading[s]
    /\ gen[s].pc = "idle"
    /\ Allocated < MaxDocs
    /\ IF Blank(topic[s])
       THEN /\ error' = [error EXCEPT ![s] = ErrTopic]
            /\ UNCHANGED <<generating, gen>>
       ELSE /\ generating' = [generating EXCEPT ![s] = TRUE]
            /\ error' = [error EXCEPT ![s] = ErrNone]
            /\ gen' = [gen EXCEPT ![s] =
                          [pc |-> "fetch", topic |-> topic[s], user |-> user[s]]]
    /\ UNCHANGED <<user, loading, topic, userRoadmaps, mounted, signingIn, sub,
                   dirty, outbox, docs, history>>

\* The Create Path button, lines 186-192.
CreatePathClick(s) ==
    /\ ~(generating[s] \/ Blank(topic[s]))
    /\ generateRoadmap(s)

\* Mutant of Throws: user.uid read as undefined instead of throwing.
ThrowsWhoeverAsks(r, uid) ==
    \/ ~r.ok
    \/ ~r.envelope
    \/ ~r.json
    \/ "modules" \notin DOMAIN r.value

\* Lines 122-125 and 129, 131: what makes the try block throw before addDoc.
Throws(r, uid) ==
    \/ ~r.ok
    \/ ~r.envelope
    \/ ~r.json
    \/ uid = Null
    \/ "modules" \notin DOMAIN r.value

\* Mutant of FinalRoadmap: the parsed roadmap spread last, so that its own
\* fields win over the ones the app stamps.
FinalRoadmapSpreadLast(parsedRoadmap, t, uid) ==
    Spread([title |-> TitlePrefix \o t,
            userId |-> uid,
            createdAt |-> ServerTimestamp,
            modules |-> [i \in DOMAIN parsedRoadmap.modules |->
                            Spread(parsedRoadmap.modules[i], [completed |-> FALSE])]],
           parsedRoadmap)

\* Lines 126-132.
FinalRoadmap(parsedRoadmap, t, uid) ==
    Spread(parsedRoadmap,
           [title |-> TitlePrefix \o t,
            userId |-> uid,
            createdAt |-> ServerTimestamp,
            modules |-> [i \in DOMAIN parsedRoadmap.modules |->
                            Spread(parsedRoadmap.modules[i], [completed |-> FALSE])]])

\* The fetch settles: lines 122-133 up to the addDoc being issued, or the
\* catch and finally blocks of lines 135-140.
FetchSettled(s, r) ==
    /\ gen[s].pc = "fetch"
    /\ IF Throws(r, gen[s].user)
       THEN /\ error' = SetState(s, error, ErrGenerate)
            /\ generating' = SetState(s, generating, FALSE)
            /\ gen' = [gen EXCEPT ![s] = GenIdle]
            /\ UNCHANGED <<outbox, dirty>>
       ELSE /\ Len(outbox[s]) < MaxOutbox
            /\ \E id \in DocIds \ UsedIds :
                  LET data == FinalRoadmap(r.value, gen[s].topic, gen[s].user)
                  IN /\ outbox' = [outbox EXCEPT ![s] =
                                      Append(@, [op |-> "add", id |-> id, data |-> data])]
                     /\ dirty' = NotifiedLocally(s, data.userId)
            /\ gen' = [gen EXCEPT ![s].pc = "add"]
            /\ UNCHANGED <<error, generating>>
    /\ UNCHANGED <<user, loading, topic, userRoadmaps, mounted, signingIn, sub,
                   docs, history>>

\* ------------------------------------------------------------ toggleModuleCompletion, lines 143-155
\* Mutant of FindRoadmap: the first roadmap of the list, whatever its id.
FindRoadmapFirst(list, roadmapId) ==
    IF list = << >> THEN 0 ELSE 1

\* userRoadmaps.find(r => r.id === roadmapId): the first match's position, 0 if none.
FindRoadmap(list, roadmapId) ==
    IF \E k \in DOMAIN list : list[k].id = roadmapId
    THEN CHOOSE k \in DOMAIN list :
            /\ list[k].id = roadmapId
            /\ \A j \in DOMAIN list : list[j].id = roadmapId => k <= j
    ELSE 0

\* Mutant of UpdatedModules: an array of the toggled module alone.
UpdatedModulesAlone(modules, moduleIndex) ==
    <<Spread(modules[moduleIndex],
             [completed |-> ~("completed" \in DOMAIN modules[moduleIndex]
                              /\ modules[moduleIndex].completed)])>>

\* Lines 146-147: the modules array handed to updateDoc.
UpdatedModules(modules, moduleIndex) ==
    [modules EXCEPT ![moduleIndex] =
        Spread(@, [completed |-> ~("completed" \in DOMAIN @ /\ @.completed)])]

\* Mutant of HeldAfterToggle: the module copied before it is flipped, so
\* that the held list keeps what the last snapshot delivered.
HeldAfterToggleCopied(list, k, updatedModules) ==
    list

\* Line 146 copies the array, not its elements: the module that line 147
\* flips is the one the held list holds, so the held list changes with it.
HeldAfterToggle(list, k, updatedModules) ==
    [list EXCEPT ![k] = Spread(@, [modules |-> updatedModules])]

\* The toggle calls that found their roadmap, over all roadmaps.
RECURSIVE TotalCalls(_)
TotalCalls(ids) ==
    IF ids = {} THEN 0
    ELSE LET i == CHOOSE j \in ids : TRUE
         IN calls[i] + TotalCalls(ids \ {i})

\* The modules the store holds for a roadmap, none while it holds no such
\* document.
Persisted(roadmapId) ==
    IF roadmapId \in DOMAIN docs THEN docs[roadmapId].modules ELSE << >>

toggleModuleCompletion(s, roadmapId, moduleIndex) ==
    /\ mounted[s] /\ ~loading[s]
    /\ LET k == FindRoadmap(userRoadmaps[s], roadmapId)
       IN IF k = 0
          THEN /\ missed' = [missed EXCEPT ![s] = TRUE]
               /\ UNCHANGED <<userRoadmaps, outbox, dirty, calls, unseen>>
          ELSE LET updatedModules ==
                       UpdatedModules(userRoadmaps[s][k].modules, moduleIndex)
               IN /\ moduleIndex \in DOMAIN userRoadmaps[s][k].modules
                  /\ Len(outbox[s]) < MaxOutbox
                  /\ TotalCalls(DocIds) < MaxCalls
                  /\ userRoadmaps' = [userRoadmaps EXCEPT ![s] =
                        HeldAfterToggle(@, k, updatedModules)]
                  /\ outbox' = [outbox EXCEPT ![s] =
                        Append(@, [op |-> "update", id |-> roadmapId,
                                   modules |-> updatedModules,
                                   index |-> moduleIndex,
                                   \* history of the call, carried with it
                                   call |-> calls[roadmapId] + 1,
                                   landed |-> Len(log[roadmapId]),
                                   unseen |-> roadmapId \in unseen[s],
                                   was |-> Persisted(roadmapId)])]
                  /\ dirty' = NotifiedLocally(s, userRoadmaps[s][k].userId)
                  /\ calls' = [calls EXCEPT ![roadmapId] = @ + 1]
                  /\ unseen' = [unseen EXCEPT ![s] = @ \cup {roadmapId}]
                  /\ UNCHANGED missed
    /\ UNCHANGED <<user, loading, topic, generating, error, mounted, signingIn,
                   sub, gen, docs, log>>

\* ------------------------------------------------------------ the store settles a write
\* The owner of the document a write is about, Null when there is none.
OwnerOf(w) ==
    IF w.op = "add" THEN w.data.userId
    ELSE IF w.id \in DOMAIN docs THEN docs[w.id].userId ELSE Null

\* Mutant of Rejected: the catch block without the finally block.
RejectedWithoutFinally(s, w) ==
    /\ error' = SetState(s, error, IF w.op = "add" THEN ErrGenerate ELSE ErrToggle)
    /\ gen' = IF w.op = "add" THEN [gen EXCEPT ![s] = GenIdle] ELSE gen
    /\ UNCHANGED <<generating, topic>>

\* What the awaiting code does when its write is rejected: lines 135-140 for
\* addDoc, lines 151-154 for updateDoc.
Rejected(s, w) ==
    IF w.op = "add"
    THEN /\ error' = SetState(s, error, ErrGenerate)
         /\ generating' = SetState(s, generating, FALSE)
         /\ gen' = [gen EXCEPT ![s] = GenIdle]
         /\ UNCHANGED topic
    ELSE /\ error' = SetState(s, error, ErrToggle)
         /\ UNCHANGED <<generating, gen, topic>>

\* The oldest write of session s is committed by the server.
WriteLanded(s) ==
    /\ outbox[s] # << >>
    /\ LET w == Head(outbox[s])
       IN /\ outbox' = [outbox EXCEPT ![s] = Tail(@)]
          /\ IF w.op = "add"
             THEN \* addDoc resolves: lines 134 and 139
                  /\ docs' = (w.id :> Spread(w.data, [createdAt |-> Stamp(ServerSeconds)]))
                                @@ docs
                  /\ topic' = SetState(s, topic, NoTopic)
                  /\ generating' = SetState(s, generating, FALSE)
                  /\ gen' = [gen EXCEPT ![s] = GenIdle]
                  /\ dirty' = Notified(w.data.userId)
                  /\ UNCHANGED <<error, log>>
             ELSE IF w.id \in DOMAIN docs
             THEN \* updateDoc resolves: the modules field is replaced whole
                  /\ docs' = [docs EXCEPT ![w.id] = UpdatedDoc(@, w.modules)]
                  /\ log' = [log EXCEPT ![w.id] =
                                Append(@, [by |-> s, index |-> w.index, call |-> w.call,
                                           landed |-> w.landed, unseen |-> w.unseen,
                                           was |-> w.was, modules |-> w.modules])]
                  /\ dirty' = Notified(docs[w.id].userId)
                  /\ UNCHANGED <<error, generating, gen, topic>>
             ELSE \* updateDoc of a document that does not exist rejects
                  /\ Rejected(s, w)
                  /\ UNCHANGED <<docs, log, dirty>>
    /\ UNCHANGED <<user, loading, userRoadmaps, mounted, signingIn, sub, calls,
                   unseen, missed>>

\* The oldest write of session s is rejected (offline, permission denied).
WriteFailed(s) ==
    /\ outbox[s] # << >>
    /\ LET w == Head(outbox[s])
       IN /\ outbox' = [outbox EXCEPT ![s] = Tail(@)]
          /\ Rejected(s, w)
          \* the local view drops the write
          /\ dirty' = IF OwnerOf(w) = Null THEN dirty ELSE NotifiedLocally(s, OwnerOf(w))
    /\ UNCHANGED <<user, loading, userRoadmaps, mounted, signingIn, sub, docs,
                   history>>

\* ------------------------------------------------------------ specifications
NoSession(v) == [s \in Sessions |-> v]

InitState ==
    /\ user = NoSession(Null)
    /\ loading = NoSession(TRUE)
    /\ topic = NoSession(NoTopic)
    /\ generating = NoSession(FALSE)
    /\ error = NoSession(ErrNone)
    /\ userRoadmaps = NoSession(<< >>)
    /\ signingIn = NoSession(FALSE)
    /\ sub = NoSession({})
    /\ dirty = NoSession({})
    /\ gen = NoSession(GenIdle)
    /\ outbox = NoSession(<< >>)
    /\ docs = << >>
    /\ calls = [i \in DocIds |-> 0]
    /\ log = [i \in DocIds |-> << >>]
    /\ unseen = NoSession({})
    /\ missed = NoSession(FALSE)

\* The answers the app-level specification draws from: a transport failure
\* and a roadmap that follows the schema.
FewResponses ==
    {r \in Responses : ~r.ok \/ (r.json /\ r.value = PayloadValid)}

\* One session, driven through its user interface: signing in, typing a
\* topic, creating roadmaps, watching the list.
Init ==
    /\ InitState
    /\ mounted = [s \in Sessions |-> s = "s1"]

Next ==
    \E s \in Sessions :
        \/ \E u \in Users \cup {Null} : AuthChanged(s, u)
        \/ SignInFailed(s)
        \/ Unmount(s)
        \/ \E o \in Users : OnSnapshot(s, o)
        \/ \E o \in Users : OnSnapshotError(s, o)
        \/ \E t \in Topics : SetTopic(s, t)
        \/ CreatePathClick(s)
        \/ \E r \in FewResponses : FetchSettled(s, r)
        \/ WriteLanded(s)
        \/ WriteFailed(s)

Spec == Init /\ [][Next]_vars

\* One session whose generateRoadmap is called directly, whatever the topic,
\* and answered by every response the service can give.
NextApi ==
    \E s \in Sessions :
        \/ \E u \in {"A", Null} : AuthChanged(s, u)
        \/ \E o \in Users : OnSnapshot(s, o)
        \/ \E t \in Topics : SetTopic(s, t)
        \/ generateRoadmap(s)
        \/ \E r \in Responses : FetchSettled(s, r)
        \/ WriteLanded(s)
        \/ WriteFailed(s)

SpecApi == Init /\ [][NextApi]_vars

\* A document as generateRoadmap creates it and the server stamps it.
Stored(payload, t, uid, seconds) ==
    Spread(FinalRoadmap(payload, t, uid), [createdAt |-> Stamp(seconds)])

\* Two signed-in sessions of user A checking modules off: the store already
\* holds a roadmap of A, created first under the larger id, and a roadmap of
\* B, and each session's live query has its first snapshot to deliver.
InitSync ==
    /\ user = NoSession("A")
    /\ loading = NoSession(FALSE)
    /\ topic = NoSession(NoTopic)
    /\ generating = NoSession(FALSE)
    /\ error = NoSession(ErrNone)
    /\ userRoadmaps = NoSession(<< >>)
    /\ mounted = NoSession(TRUE)
    /\ signingIn = NoSession(FALSE)
    /\ sub = [s \in Sessions |-> {user[s]}]
    /\ dirty = sub
    /\ gen = NoSession(GenIdle)
    /\ outbox = NoSession(<< >>)
    /\ docs = (2 :> Stored(PayloadValid, <<"G", "o">>, "A", 1))
                 @@ (1 :> Stored(PayloadNoTitle, <<"G", "o">>, "B", 2))
    /\ calls = [i \in DocIds |-> 0]
    /\ log = [i \in DocIds |-> << >>]
    /\ unseen = NoSession({})
    /\ missed = NoSession(FALSE)

NextSync ==
    \E s \in Sessions :
        \/ \E o \in Users : OnSnapshot(s, o)
        \/ \E id \in DocIds, i \in 1..2 : toggleModuleCompletion(s, id, i)
        \/ WriteLanded(s)
        \/ WriteFailed(s)

SpecSync == InitSync /\ [][NextSync]_vars

\* One signed-in session of user A over a store that holds a roadmap of B:
\* it creates roadmaps, watches the list and checks their second module off
\* and on.
InitLife ==
    /\ user = NoSession("A")
    /\ loading = NoSession(FALSE)
    /\ topic = NoSession(NoTopic)
    /\ generating = NoSession(FALSE)
    /\ error = NoSession(ErrNone)
    /\ userRoadmaps = NoSession(<< >>)
    /\ mounted = [s \in Sessions |-> s = "s1"]
    /\ signingIn = NoSession(FALSE)
    /\ sub = [s \in Sessions |-> IF mounted[s] THEN {user[s]} ELSE {}]
    /\ dirty = sub
    /\ gen = NoSession(GenIdle)
    /\ outbox = NoSession(<< >>)
    /\ docs = (1 :> Stored(PayloadNoTitle, <<"G", "o">>, "B", 1))
    /\ calls = [i \in DocIds |-> 0]
    /\ log = [i \in DocIds |-> << >>]
    /\ unseen = NoSession({})
    /\ missed = NoSession(FALSE)

NextLife ==
    \E s \in Sessions :
          \/ SetTopic(s, <<" ", "G", "o">>)
          \/ CreatePathClick(s)
          \/ \E r \in FewResponses : FetchSettled(s, r)
          \/ \E o \in Users : OnSnapshot(s, o)
          \/ \E id \in DocIds : toggleModuleCompletion(s, id, 2)
          \/ WriteLanded(s)
          \/ WriteFailed(s)

SpecLife == InitLife /\ [][NextLife]_vars

\* The two sessions of SpecSync, the first checking modules off, the second
\* watching only, with snapshots delivered for as long as one is pending: the
\* store keeps a live query's listener informed while it is subscribed.
NextWatch ==
    \/ \E id \in DocIds, i \in 1..2 : toggleModuleCompletion("s1", id, i)
    \/ \E s \in Sessions :
          \/ \E o \in Users : OnSnapshot(s, o)
          \/ WriteLanded(s)
          \/ WriteFailed(s)

Deliver == \E s \in Sessions : \E o \in Users : OnSnapshot(s, o)

FairWatch == InitSync /\ [][NextWatch]_vars /\ WF_vars(Deliver)

TypeOK ==
    /\ \A s \in Sessions : user[s] \in Users \cup {Null}
    /\ \A s \in Sessions : Len(outbox[s]) <= MaxOutbox
    /\ Cardinality(DOMAIN docs) <= MaxDocs

\* ------------------------------------------------------------ claims
\* A success response whose text is JSON that follows the schema.
ValidAnswer(r) == r.ok /\ r.envelope /\ r.json /\ ValidRoadmap(r.value)

\* C1: for a non-blank topic and a signed-in caller, when the service answers
\* with a valid roadmap, generateRoadmap hands the store exactly one document,
\* with title "Learning Roadmap for " + topic, the caller's uid, the
\* server-timestamp sentinel, and the payload's modules in order, each with
\* completed = false whatever the payload said; and when that write lands the
\* store holds exactly one more document, with that title, uid and modules.
C1_GenerateStoresRoadmap ==
    [][\A s \in Sessions :
        /\ \A r \in Responses :
              (FetchSettled(s, r) /\ ValidAnswer(r) /\ gen[s].user # Null)
              => /\ Len(outbox'[s]) = Len(outbox[s]) + 1
                 /\ SubSeq(outbox'[s], 1, Len(outbox[s])) = outbox[s]
                 /\ LET w == outbox'[s][Len(outbox'[s])]
                    IN /\ w.op = "add"
                       /\ w.data.title = TitlePrefix \o gen[s].topic
                       /\ gen[s].topic = topic[s]
                       /\ w.data.userId = gen[s].user
                       /\ w.data.createdAt = ServerTimestamp
                       /\ Len(w.data.modules) = Len(r.value.modules)
                       /\ \A i \in DOMAIN r.value.modules :
                             /\ w.data.modules[i].title = r.value.modules[i].title
                             /\ w.data.modules[i].resources = r.value.modules[i].resources
                             /\ w.data.modules[i].completed = FALSE
        /\ (WriteLanded(s) /\ Head(outbox[s]).op = "add")
           => LET w == Head(outbox[s])
              IN /\ w.id \notin DOMAIN docs
                 /\ DOMAIN docs' = DOMAIN docs \cup {w.id}
                 /\ \A j \in DOMAIN docs : docs'[j] = docs[j]
                 /\ docs'[w.id].title = w.data.title
                 /\ docs'[w.id].userId = w.data.userId
                 /\ docs'[w.id].modules = w.data.modules
                 /\ SecondsOf(docs'[w.id]) > 0
      ]_vars

\* A stored roadmap made from the two-module answer, and one made from the
\* answer that carried completed = true and a userId of its own.
C1_Witness ==
    \E i, j \in DOMAIN docs :
        /\ docs[i].title = TitlePrefix \o <<" ", "G", "o">>
        /\ docs[i].userId = "A"
        /\ Len(docs[i].modules) = 2
        /\ docs[i].modules[1].title = "m1" /\ docs[i].modules[2].title = "m2"
        /\ \A k \in 1..2 : docs[i].modules[k].completed = FALSE
        /\ Len(docs[j].modules) = 1
        /\ docs[j].modules[1].completed = FALSE
        /\ docs[j].userId = "A"

WhitespaceOnly(t) == \A i \in DOMAIN t : t[i] = " "

\* C2: generateRoadmap called with an empty or whitespace-only topic sets the
\* validation message and does nothing else: no request, no store write, the
\* generating flag not set.
C2_BlankTopicRejected ==
    [][\A s \in Sessions :
        (generateRoadmap(s) /\ WhitespaceOnly(topic[s]))
        => /\ error'[s] = ErrTopic
           /\ ~generating'[s]
           /\ UNCHANGED <<gen, outbox, docs, generating>>
      ]_vars

C2_Witness ==
    \E s \in Sessions :
        /\ topic[s] = <<" ", " ">>
        /\ error[s] = ErrTopic
        /\ gen[s].pc = "idle" /\ ~generating[s] /\ outbox[s] = << >>

\* C3: every persisted roadmap has at least one module, and (no module having
\* been toggled) every module's completed is false.
C3_Claim ==
    \A id \in DOMAIN docs :
        /\ Len(docs[id].modules) >= 1
        /\ \A i \in DOMAIN docs[id].modules : docs[id].modules[i].completed = FALSE

C5_Claim ==
    [][\A s \in Sessions : \A r \in Responses :
        (FetchSettled(s, r) /\ r.ok /\ r.envelope /\ ~ValidAnswer(r))
        => /\ outbox'[s] = outbox[s]
           /\ gen'[s].pc = "idle"
           /\ error'[s] = ErrGenerate
      ]_vars

\* Roadmap id has been toggled twice and no more, and both writes landed.
TwoLanded(id) ==
    /\ id \in DOMAIN docs
    /\ calls[id] = 2
    /\ Len(log[id]) = 2

\* Two calls of one session on module i of roadmap id: the second was issued
\* after the first one's write had landed.
SequentialPair(id, i) ==
    /\ TwoLanded(id)
    /\ log[id][1].by = log[id][2].by
    /\ log[id][1].index = i /\ log[id][2].index = i
    /\ log[id][1].landed = 0 /\ log[id][2].landed = 1
    /\ i \in DOMAIN log[id][1].was

\* C6: two toggleModuleCompletion calls of one session on the same module of
\* the same roadmap, the second issued only after the first write has landed,
\* leave the module's persisted completed flag at the value it had before the
\* first call, wherever the snapshot deliveries fall (none, one between the
\* two calls, after both).
C6_DoubleToggleRestores ==
    \A id \in DocIds : \A i \in 1..2 :
        SequentialPair(id, i) =>
            /\ i \in DOMAIN docs[id].modules
            /\ docs[id].modules[i].completed = log[id][1].was[i].completed
            /\ docs[id].modules = log[id][1].was

\* The case of C6 with no snapshot delivered to the session since before the
\* first call: the second call read what the first one left in the held list.
C6_Witness ==
    \E id \in DocIds : \E i \in 1..2 :
        /\ SequentialPair(id, i)
        /\ log[id][2].unseen
        /\ docs[id].modules[i].completed = FALSE

\* Two calls on modules 1 and 2 of roadmap id, the one on module 1 landing
\* first: both were issued before either write landed, and, when one session
\* issued both, with no snapshot delivered to it in between. (A session is
\* never delivered another session's write before that write lands.)
RacePair(id) ==
    /\ TwoLanded(id)
    /\ log[id][1].index = 1 /\ log[id][2].index = 2
    /\ log[id][1].landed = 0 /\ log[id][2].landed = 0
    /\ log[id][1].by = log[id][2].by => log[id][2].unseen
    /\ DOMAIN log[id][1].was = 1..2

CreatedSeconds(d) ==
    IF "createdAt" \notin DOMAIN d THEN 0
    ELSE IF "seconds" \notin DOMAIN d.createdAt THEN 0
    ELSE d.createdAt.seconds

\* Roadmaps created at seconds 10, 30 and 20, and one with no createdAt.
C8_Example ==
    <<[id |-> 1, userId |-> "A"],
      [id |-> 2, userId |-> "A", createdAt |-> Stamp(10)],
      [id |-> 3, userId |-> "A", createdAt |-> Stamp(30)],
      [id |-> 4, userId |-> "A", createdAt |-> Stamp(20)]>>

\* C8: every snapshot delivery replaces the held list with all the documents
\* of the snapshot, each once, newest first by createdAt seconds, a document
\* with no resolved createdAt counting as 0 and coming after every stamped
\* one; every stored document of the owner is among them; and roadmaps of
\* seconds 10, 30, 20 are held as 30, 20, 10, one with no createdAt last.
C8_SnapshotSorted ==
    [][/\ \A s \in Sessions : \A o \in Users :
            OnSnapshot(s, o) =>
                LET held == userRoadmaps'[s]
                    snapshot == RoadmapsData(s, o)
                IN /\ Len(held) = Len(snapshot)
                   /\ \A k \in DOMAIN snapshot : \E j \in DOMAIN held : held[j] = snapshot[k]
                   /\ \A id \in DOMAIN docs :
                         docs[id].userId = o => \E j \in DOMAIN held : held[j].id = id
                   /\ \A j, k \in DOMAIN held :
                         j < k => CreatedSeconds(held[j]) >= CreatedSeconds(held[k])
                   /\ \A j, k \in DOMAIN held :
                         CreatedSeconds(held[j]) = 0 /\ CreatedSeconds(held[k]) > 0 => k < j
       /\ [k \in 1..4 |-> SortRoadmaps(C8_Example)[k].id] = <<3, 4, 2, 1>>
     ]_vars

\* A held list the sort reordered: a roadmap whose add is still in flight,
\* under the smaller id, held after a stamped one.
C8_Witness ==
    \E s \in Sessions :
        /\ Len(userRoadmaps[s]) = 2
        /\ CreatedSeconds(userRoadmaps[s][1]) > 0
        /\ userRoadmaps[s][2].createdAt = PendingTimestamp
        /\ userRoadmaps[s][2].id < userRoadmaps[s][1].id

\* C9: every document of every snapshot handed to the callback of the live
\* query for an owner, and so every roadmap the callback puts in the held
\* list, has that owner's userId.
C9_SnapshotIsolation ==
    [][\A s \in Sessions : \A o \in Users :
          OnSnapshot(s, o) =>
              /\ \A k \in DOMAIN RoadmapsData(s, o) : RoadmapsData(s, o)[k].userId = o
              /\ \A k \in DOMAIN userRoadmaps'[s] : userRoadmaps'[s][k].userId = o
     ]_vars

\* The list of user A holds A's roadmap created after a roadmap of B was
\* stored, and nothing of B.
C9_Witness ==
    /\ user["s1"] = "A"
    /\ \E id \in DOMAIN docs : docs[id].userId = "B"
    /\ \E k \in DOMAIN userRoadmaps["s1"] : CreatedSeconds(userRoadmaps["s1"][k]) = 2
    /\ \A k \in DOMAIN userRoadmaps["s1"] : userRoadmaps["s1"][k].userId = "A"

\* C10: at every moment a session has at most one live query, for its
\* current user, none while no user is set and none once detached; and the
\* held list is only ever replaced by the callback of the current user's
\* query in an attached component.
C10_SubscriptionTornDown ==
    /\ [](\A s \in Sessions :
             /\ Cardinality(sub[s]) <= 1
             /\ sub[s] \subseteq {user[s]} \ {Null}
             /\ ~mounted[s] => sub[s] = {})
    /\ [][\A s \in Sessions :
             /\ \A o \in Users : OnSnapshot(s, o) => mounted[s] /\ o = user[s]
             /\ userRoadmaps'[s] # userRoadmaps[s] =>
                   mounted[s] /\ \E o \in {user[s]} \ {Null} : OnSnapshot(s, o)
         ]_vars

\* After the owner changed from A to B a roadmap of A was stored, and the
\* list still holds what the query of A last delivered.
C10_Witness ==
    /\ user["s1"] = "B" /\ sub["s1"] = {"B"}
    /\ userRoadmaps["s1"] # << >>
    /\ \A k \in DOMAIN userRoadmaps["s1"] : userRoadmaps["s1"][k].userId = "A"
    /\ \E id \in DOMAIN docs :
          /\ docs[id].userId = "A"
          /\ \A k \in DOMAIN userRoadmaps["s1"] : userRoadmaps["s1"][k].id # id

\* C11 as stated: once the component is detached, nothing that arrives for a
\* generation in flight is acted upon: no write is handed to the store, and
\* topic, error and generating stay as they were.
C11_Claim ==
    [][\A s \in Sessions :
          ~mounted[s] =>
              /\ Len(outbox'[s]) <= Len(outbox[s])
              /\ topic'[s] = topic[s]
              /\ error'[s] = error[s]
              /\ generating'[s] = generating[s]
     ]_vars

\* The held list of session s has no roadmap of this id.
NotHeld(s, id) == \A k \in DOMAIN userRoadmaps[s] : userRoadmaps[s][k].id # id

\* C12: toggleModuleCompletion with a roadmap id that is not in the held list
\* hands nothing to the store, sets no error and changes no local state.
C12_UnknownRoadmapNoOp ==
    [][\A s \in Sessions : \A id \in DocIds : \A i \in 1..2 :
          toggleModuleCompletion(s, id, i) /\ NotHeld(s, id) =>
              /\ outbox' = outbox
              /\ docs' = docs
              /\ error' = error
              /\ userRoadmaps' = userRoadmaps
              /\ topic' = topic /\ generating' = generating /\ loading' = loading
              /\ user' = user
     ]_vars

\* A session holding roadmaps has toggled an id it does not hold, a roadmap
\* of another user in the store, and nothing came of it.
C12_Witness ==
    \E s \in Sessions :
        /\ missed[s]
        /\ userRoadmaps[s] # << >>
        /\ 1 \in DOMAIN docs /\ NotHeld(s, 1)
        /\ calls = [i \in DocIds |-> 0]
        /\ outbox[s] = << >> /\ error[s] = ErrNone

\* Session s made the only toggle call there has been, on roadmap id, and its
\* write was rejected: the store holds what it held before the call, which is
\* also what the session's list held before the call.
OnlyToggleFailed(s, id) ==
    /\ id \in DOMAIN docs
    /\ calls = [i \in DocIds |-> IF i = id THEN 1 ELSE 0]
    /\ log[id] = << >>
    /\ \A t \in Sessions : outbox[t] = << >>
    /\ error[s] = ErrToggle

\* C13 as stated: when the store write of a toggle fails, the stored document
\* is unchanged and the roadmap in the held list, the completed flag of the
\* targeted module included, is as it was before the call.
C13_Claim ==
    \A s \in Sessions : \A id \in DocIds :
        OnlyToggleFailed(s, id) =>
            \A k \in DOMAIN userRoadmaps[s] :
                userRoadmaps[s][k].id = id =>
                    userRoadmaps[s][k].modules = docs[id].modules

\* A module but for its completed flag, and a document but for those flags.
WithoutCompleted(m) == [f \in DOMAIN m \ {"completed"} |-> m[f]]

Frame(d) ==
    [f \in DOMAIN d |->
        IF f = "modules"
        THEN [i \in DOMAIN d.modules |-> WithoutCompleted(d.modules[i])]
        ELSE d[f]]

\* C14: in every step every stored roadmap stays stored, under its id, with
\* its title, userId, createdAt and, completed flags apart, its modules in
\* number, order, titles and resources; a toggle call that finds its roadmap
\* hands the store the held modules array with completed flipped at
\* moduleIndex and nothing else different; and when that write lands the
\* stored modules field is that array.
C14_StructureKept ==
    [][/\ \A id \in DOMAIN docs :
            /\ id \in DOMAIN docs'
            /\ Frame(docs'[id]) = Frame(docs[id])
       /\ \A s \in Sessions : \A id \in DocIds : \A i \in 1..2 :
            toggleModuleCompletion(s, id, i) /\ ~NotHeld(s, id) =>
                LET held == userRoadmaps[s][CHOOSE k \in DOMAIN userRoadmaps[s] :
                                               userRoadmaps[s][k].id = id].modules
                    w == outbox'[s][Len(outbox'[s])]
                IN /\ Len(outbox'[s]) = Len(outbox[s]) + 1
                   /\ w.op = "update" /\ w.id = id
                   /\ DOMAIN w.modules = DOMAIN held
                   /\ \A j \in DOMAIN held : j # i => w.modules[j] = held[j]
                   /\ WithoutCompleted(w.modules[i]) = WithoutCompleted(held[i])
                   /\ w.modules[i].completed = ~held[i].completed
       /\ \A s \in Sessions :
            (/\ WriteLanded(s)
             /\ Head(outbox[s]).op = "update"
             /\ Head(outbox[s]).id \in DOMAIN docs) =>
                docs'[Head(outbox[s]).id].modules = Head(outbox[s]).modules
     ]_vars

\* A roadmap the session created, its second module checked off in the store
\* since, everything else as it was stored.
C14_Witness ==
    /\ 2 \in DOMAIN docs
    /\ log[2] # << >>
    /\ docs[2].modules[2].completed
    /\ Frame(docs[2]) = Frame(Stored(PayloadValid, <<" ", "G", "o">>, "A", 2))

\* No write is in flight.
Quiet == \A s \in Sessions : outbox[s] = << >>

\* The stored roadmaps of an owner, newest first.
StoredOf(owner) ==
    LET ids == IdsAscending({i \in DOMAIN docs : docs[i].userId = owner})
    IN SortRoadmaps([k \in DOMAIN ids |-> Spread([id |-> ids[k]], docs[ids[k]])])

Synced(s) == userRoadmaps[s] = StoredOf(user[s])

FlagChanges(id, i) ==
    /\ id \in DOMAIN docs /\ id \in DOMAIN docs'
    /\ i \in DOMAIN docs[id].modules /\ i \in DOMAIN docs'[id].modules
    /\ docs'[id].modules[i].completed # docs[id].modules[i].completed

\* The write of a toggle call on roadmap id lands in this step.
ToggleLands(s, id) ==
    /\ WriteLanded(s)
    /\ Head(outbox[s]).op = "update"
    /\ Head(outbox[s]).id = id
    /\ id \in DOMAIN docs

\* C16 as stated, for behaviours in which no write has been rejected: the
\* stored completed flag of a module changes only in a step where the write
\* of a toggle call on that roadmap and that very module lands.
C16_Claim ==
    [][\A id \in DocIds : \A i \in 1..2 :
          FlagChanges(id, i) /\ error = NoSession(ErrNone) =>
              \E s \in Sessions : ToggleLands(s, id) /\ Head(outbox[s]).index = i
     ]_vars

\* C16, amended: a stored completed flag is always true or false and changes
\* only in a step where the write of a toggle call on that roadmap lands,
\* never in a snapshot delivery or any other step; the landing write sets the
\* toggled module's flag to the flipped value of the caller's array, and sets
\* every other module's flag to what the caller's array held, which changes
\* it when that differed from the store.
C16_FlagChangesOnlyOnToggleWrite ==
    /\ [](\A id \in DOMAIN docs : \A i \in DOMAIN docs[id].modules :
             docs[id].modules[i].completed \in BOOLEAN)
    /\ [][/\ \A id \in DocIds : \A i \in 1..2 :
               FlagChanges(id, i) =>
                   \E s \in Sessions :
                       /\ ToggleLands(s, id)
                       /\ Head(outbox[s]).modules[i].completed # docs[id].modules[i].completed
          /\ \A id \in DocIds : \A s \in Sessions :
               ToggleLands(s, id) =>
                   \A i \in DOMAIN docs'[id].modules :
                       docs'[id].modules[i].completed = Head(outbox[s]).modules[i].completed
         ]_vars

\* The landing of a toggle of module 2 has changed the stored flag of module
\* 1, which an earlier write had set.
C16_Witness ==
    \E id \in DOMAIN docs :
        /\ Len(log[id]) = 2
        /\ log[id][2].index = 2
        /\ log[id][1].modules[1].completed # log[id][2].modules[1].completed
        /\ docs[id].modules = log[id][2].modules

\* C17 as stated: in every state every roadmap of the held list of an
\* attached session has the userId of the session's current user.
C17_Claim ==
    \A s \in Sessions :
        mounted[s] =>
            \A k \in DOMAIN userRoadmaps[s] : userRoadmaps[s][k].userId = user[s]

\* The generations of session s under way: a request not yet answered, or
\* an addDoc not yet settled.
InFlight(s) ==
    (IF gen[s].pc = "fetch" THEN 1 ELSE 0) + Cardinality(PendingAdds(s))

\* C18: a session never has more than one generation under way; while its
\* component is attached, generating is true exactly while a request or its
\* store write is pending; and the Create Path control only starts a
\* generation when the flag is false, raising it.
C18_GeneratingTracksFlight ==
    /\ [](\A s \in Sessions :
             /\ InFlight(s) <= 1
             /\ InFlight(s) = 1 <=> gen[s].pc # "idle"
             /\ mounted[s] => (generating[s] <=> InFlight(s) = 1))
    /\ [][\A s \in Sessions :
             CreatePathClick(s) => ~generating[s] /\ InFlight(s) = 0 /\ generating'[s]
         ]_vars

\* The flag is up while the addDoc of a generation is pending.
C18_Witness ==
    \E s \in Sessions :
        /\ mounted[s] /\ generating[s]
        /\ gen[s].pc = "add"
        /\ PendingAdds(s) # {}

\* C19: a generation started while no user is set hands nothing to the store
\* whatever the service answers, and ends with the generation error shown and
\* generating false; every roadmap stored or on its way to the store carries
\* the uid of a user.
C19_NoUserNoRoadmap ==
    /\ [](/\ \A id \in DOMAIN docs :
               "userId" \in DOMAIN docs[id] /\ docs[id].userId \in Users
          /\ \A s \in Sessions : \A k \in PendingAdds(s) :
               outbox[s][k].data.userId \in Users)
    /\ [][\A s \in Sessions : \A r \in Responses :
             FetchSettled(s, r) /\ gen[s].user = Null =>
                 /\ outbox' = outbox /\ docs' = docs
                 /\ gen'[s].pc = "idle"
                 /\ mounted[s] => error'[s] = ErrGenerate /\ ~generating'[s]
         ]_vars

\* With no user set and the page shown, a generation for a non-blank topic
\* has ended in the generation error, the store still empty.
C19_Witness ==
    \E s \in Sessions :
        /\ mounted[s] /\ ~loading[s]
        /\ user[s] = Null
        /\ ~Blank(topic[s])
        /\ error[s] = ErrGenerate /\ ~generating[s]
        /\ gen[s].pc = "idle"
        /\ docs = << >>

====
